---- MODULE Spec2Model ----
(***************************************************************************)
(* Atlas Research Assistant: the planner -> search -> synthesizer pipeline *)
(* (src/agents.py, src/graph.py), the google_search tool (src/tools.py)    *)
(* and the command-line entry point (src/main.py).                         *)
(*                                                                         *)
(* Every Python str is a sequence of one-character strings, so that        *)
(* strip, splitlines, len and the emptiness tests act as they do in the    *)
(* code.  Fixed literals of the code that are only ever copied (prompt     *)
(* text, labels of an f-string) are single tokens of such a sequence.      *)
(***************************************************************************)
EXTENDS Integers, Sequences, FiniteSets, TLC

VARIABLES
    pc,                     \* position of the running entry point
    entry,                  \* who started it: "cli", "run", "planner_node", "synthesizer_node"
    os_environ,             \* names set (non-empty) in the process environment
    dotenv_file,            \* names the .env file sets and the environment lacks
    GOOGLE_SEARCH_API_KEY,  \* tools.py module global: TRUE iff set when tools was imported
    GOOGLE_CSE_ID,          \* tools.py module global, likewise
    q,                      \* the question handed to run / graph.invoke
    state,                  \* the AtlasState mapping (total=False: keys may be missing)
    subqs,                  \* search_node local
    idx,                    \* search_node loop position (1-based)
    aggregated,             \* search_node local
    llm_calls,              \* model calls made so far, with their inputs
    search_calls,           \* google_search.invoke calls so far, with their outcome
    net_requests,           \* requests.get calls made by google_search
    stdout,                 \* notices printed by the command line
    exc,                    \* the exception that ended the run, or NoExc
    ret,                    \* value returned by run, or NoRet
    ran,                    \* nodes started so far, in order
    pending,                \* the model input about to be submitted by the running node
    planner_content         \* what the model answers to the planner's prompt

vars == << pc, entry, os_environ, dotenv_file, GOOGLE_SEARCH_API_KEY, GOOGLE_CSE_ID,
           q, state, subqs, idx, aggregated, llm_calls, search_calls, net_requests,
           stdout, exc, ret, ran, pending, planner_content >>

----------------------------------------------------------------------------
(* Bounds of the model *)

MaxTextLen == 4      \* exhaustive model responses: every text up to this length
MaxLines == 7        \* line-structured model responses: up to this many lines
MaxSubqs == 2        \* sub-questions of a full pipeline run
MaxHits == 6         \* hits per result block handed to synthesizer_node directly
MaxBlocks == 2       \* result blocks handed to synthesizer_node directly

----------------------------------------------------------------------------
(* Python str operations *)

TAB == "\t"
LF == "\n"
CR == "\r"

\* str.strip() with no argument strips whitespace
Whitespace == {" ", TAB, LF, CR}

\* the argument of l.strip("- ")
BulletChars == {"-", " "}

\* str.splitlines() boundaries
LineBreaks == {LF, CR}

RECURSIVE LStrip(_, _)
LStrip(s, chars) ==
    IF s # <<>> /\ Head(s) \in chars THEN LStrip(Tail(s), chars) ELSE s

RECURSIVE RStrip(_, _)
RStrip(s, chars) ==
    IF s # <<>> /\ s[Len(s)] \in chars THEN RStrip(SubSeq(s, 1, Len(s) - 1), chars) ELSE s

Strip(s, chars) == RStrip(LStrip(s, chars), chars)

RECURSIVE SplitFrom(_, _, _)
SplitFrom(t, i, cur) ==
    IF i > Len(t) THEN (IF cur = <<>> THEN <<>> ELSE <<cur>>)
    ELSE IF t[i] = CR /\ i < Len(t) /\ t[i + 1] = LF
         THEN <<cur>> \o SplitFrom(t, i + 2, <<>>)
    ELSE IF t[i] \in LineBreaks
         THEN <<cur>> \o SplitFrom(t, i + 1, <<>>)
    ELSE SplitFrom(t, i + 1, Append(cur, t[i]))

\* text.split() in place of text.splitlines(): pieces between runs of whitespace
RECURSIVE SplitWordsFrom(_, _, _)
SplitWordsFrom(t, i, cur) ==
    IF i > Len(t) THEN (IF cur = <<>> THEN <<>> ELSE <<cur>>)
    ELSE IF t[i] \in Whitespace
         THEN (IF cur = <<>> THEN <<>> ELSE <<cur>>) \o SplitWordsFrom(t, i + 1, <<>>)
    ELSE SplitWordsFrom(t, i + 1, Append(cur, t[i]))

SplitWords(t) == SplitWordsFrom(t, 1, <<>>)

SplitLines(t) == SplitFrom(t, 1, <<>>)

RECURSIVE Join(_, _)
Join(parts, sep) ==
    IF parts = <<>> THEN <<>>
    ELSE IF Len(parts) = 1 THEN parts[1]
    ELSE parts[1] \o sep \o Join(Tail(parts), sep)

Map(s, F(_)) == [i \in 1..Len(s) |-> F(s[i])]

\* s[:n]
Take(s, n) == SubSeq(s, 1, IF Len(s) < n THEN Len(s) ELSE n)

\* str(x) of a list of str: "['a', 'b']"
PyReprStr(s) == <<"'">> \o s \o <<"'">>
PyStrOfList(parts) == <<"[">> \o Join(Map(parts, PyReprStr), <<",", " ">>) \o <<"]">>

\* x.content if isinstance(x.content, str) else str(x.content)
ContentText(content) ==
    IF content.type = "str" THEN content.val ELSE PyStrOfList(content.val)

\* dict.get(key, default)
Get(d, key, default) == IF key \in DOMAIN d THEN d[key] ELSE default

\* LangGraph applies a node's returned mapping to the state
Merge(s, u) == [k \in DOMAIN s \cup DOMAIN u |-> IF k \in DOMAIN u THEN u[k] ELSE s[k]]

----------------------------------------------------------------------------
(* agents.py: _extract_lines *)

HasContent(l) == Strip(l, Whitespace) # <<>>
StripBullets(l) == Strip(l, BulletChars)
LongEnough(l) == Len(l) > 2

_extract_lines(text) ==
    SelectSeq(Map(SelectSeq(SplitLines(text), HasContent), StripBullets), LongEnough)

----------------------------------------------------------------------------
(* Values *)

EmptyState == [k \in {} |-> <<>>]
NoExc == [type |-> "none", msg |-> <<>>]
NoRet == [returned |-> FALSE, val |-> <<>>]
NoPending == [node |-> "none", sys |-> "none", human |-> <<>>]

EnvNames == {"GOOGLE_API_KEY", "GOOGLE_SEARCH_API_KEY", "GOOGLE_CSE_ID"}

SeqsUpTo(S, n) == UNION {[1..k -> S] : k \in 0..n}

\* a section of a prompt: a fixed label of the code followed by inserted lines
Section(label, body) == [label |-> label, body |-> body]

----------------------------------------------------------------------------
(* graph.py: the compiled graph *)

START == "START"
END == "END"

\* the graph with the planner wired straight to the synthesizer
EdgeSkipsSearch ==
    [START |-> "planner", planner |-> "synthesizer", search |-> "synthesizer",
     synthesizer |-> END]

\* sg.add_edge(...)
Edge == [START |-> "planner", planner |-> "search", search |-> "synthesizer",
         synthesizer |-> END]

\* where control goes when a node returns: along the graph's edge in a pipeline
\* run, back to the caller when the node function was called on its own
AfterNode(node) == IF entry \in {"cli", "run"} THEN Edge[node] ELSE END

----------------------------------------------------------------------------
(* agents.py: get_llm and the model call *)

\* get_llm raises ValueError when GOOGLE_API_KEY is unset at the time of the call
GetLlmRaises == "GOOGLE_API_KEY" \notin os_environ

ApiKeyError == [type |-> "ValueError", msg |-> <<"GOOGLE_API_KEY environment variable is required">>]
LlmErrors == {[type |-> "LlmError", msg |-> <<"quota">>]}

NoContent == [type |-> "none", val |-> <<>>]

\* one llm.invoke: its input, whether it returned, and the content it returned
LlmCall(ok, content) ==
    [node |-> pending.node, sys |-> pending.sys, human |-> pending.human,
     ok |-> ok, content |-> content]

GetLlmFails ==
    /\ pc \in {"llm_plan", "llm_synth"}
    /\ GetLlmRaises
    /\ exc' = ApiKeyError
    /\ pc' = "raised"
    /\ UNCHANGED << entry, os_environ, dotenv_file, GOOGLE_SEARCH_API_KEY, GOOGLE_CSE_ID,
                    q, state, subqs, idx, aggregated, llm_calls, search_calls,
                    net_requests, stdout, ret, ran, pending, planner_content >>

\* the model failure caught and turned into a report, as search_node does for searches
InvokeFailsSwallowed ==
    /\ pc \in {"llm_plan", "llm_synth"}
    /\ ~GetLlmRaises
    /\ llm_calls' = Append(llm_calls, LlmCall(FALSE, NoContent))
    /\ state' = Merge(state, [final_report |-> <<"E", "r", "r", "o", "r">>])
    /\ pc' = END
    /\ UNCHANGED << entry, os_environ, dotenv_file, GOOGLE_SEARCH_API_KEY, GOOGLE_CSE_ID,
                    q, subqs, idx, aggregated, search_calls, exc,
                    net_requests, stdout, ret, ran, pending, planner_content >>

InvokeFails ==
    /\ pc \in {"llm_plan", "llm_synth"}
    /\ ~GetLlmRaises
    /\ \E e \in LlmErrors : exc' = e
    /\ llm_calls' = Append(llm_calls, LlmCall(FALSE, NoContent))
    /\ pc' = "raised"
    /\ UNCHANGED << entry, os_environ, dotenv_file, GOOGLE_SEARCH_API_KEY, GOOGLE_CSE_ID,
                    q, state, subqs, idx, aggregated, search_calls,
                    net_requests, stdout, ret, ran, pending, planner_content >>

----------------------------------------------------------------------------
(* agents.py: planner_node *)

\* the question taken without .strip()
PlannerQuestionUnstripped == Get(state, "question", <<>>)

PlannerQuestion == Strip(Get(state, "question", <<>>), Whitespace)

PlannerPrompt(question) ==
    << Section("You are a research planner. [...] Question:", <<question>>),
       Section("Return each sub-question as a separate line without numbering.", <<>>) >>

PlannerShortCircuit ==
    /\ pc = "planner"
    /\ PlannerQuestion = <<>>
    /\ state' = Merge(state, [subquestions |-> <<>>])
    /\ ran' = Append(ran, "planner")
    /\ pc' = AfterNode("planner")
    /\ UNCHANGED << entry, os_environ, dotenv_file, GOOGLE_SEARCH_API_KEY, GOOGLE_CSE_ID,
                    q, subqs, idx, aggregated, llm_calls, search_calls,
                    net_requests, stdout, exc, ret, pending, planner_content >>

PlannerAsk ==
    /\ pc = "planner"
    /\ PlannerQuestion # <<>>
    /\ pending' = [node |-> "planner", sys |-> "none", human |-> PlannerPrompt(PlannerQuestion)]
    /\ ran' = Append(ran, "planner")
    /\ pc' = "llm_plan"
    /\ UNCHANGED << entry, os_environ, dotenv_file, GOOGLE_SEARCH_API_KEY, GOOGLE_CSE_ID,
                    q, state, subqs, idx, aggregated, llm_calls, search_calls,
                    net_requests, stdout, exc, ret, planner_content >>

PlannerReturn ==
    /\ pc = "llm_plan"
    /\ ~GetLlmRaises
    /\ llm_calls' = Append(llm_calls, LlmCall(TRUE, planner_content))
    /\ state' = Merge(state, [subquestions |-> _extract_lines(ContentText(planner_content))])
    /\ pending' = NoPending
    /\ pc' = AfterNode("planner")
    /\ UNCHANGED << entry, os_environ, dotenv_file, GOOGLE_SEARCH_API_KEY, GOOGLE_CSE_ID,
                    q, subqs, idx, aggregated, search_calls,
                    net_requests, stdout, exc, ret, ran, planner_content >>

----------------------------------------------------------------------------
(* tools.py: google_search *)

\* "num": max(1, min(num_results, 10))
ClampNum(num_results) ==
    LET m == IF num_results < 10 THEN num_results ELSE 10
    IN  IF m > 1 THEN m ELSE 1

\* if not GOOGLE_SEARCH_API_KEY or not GOOGLE_CSE_ID: return []
SearchConfigured == GOOGLE_SEARCH_API_KEY /\ GOOGLE_CSE_ID

\* one entry of results: every key present, "" where the item lacks it
ItemToHit(it) ==
    [title |-> Get(it, "title", <<>>), link |-> Get(it, "link", <<>>),
     snippet |-> Get(it, "snippet", <<>>)]

\* what google_search returns for a decoded response body
ResultsOf(data) == Map(Get(data, "items", <<>>), ItemToHit)

\* ways requests.get / raise_for_status / resp.json / data.get raise inside the try
RequestFailures == {"network_error", "http_status", "malformed"}

FullItem == [title |-> <<"T">>, link |-> <<"L">>, snippet |-> <<"S">>]
BareItem == [link |-> <<"L">>]
TitleItem == [title |-> <<"T">>]

\* decoded response bodies: no "items" key, and item lists
ResponseData ==
    { EmptyState, [items |-> <<BareItem>>], [items |-> <<TitleItem, FullItem>>] }

----------------------------------------------------------------------------
(* agents.py: search_node *)

\* str(e) of the exceptions google_search.invoke may raise
ToolErrors == { <<"b", "a", "d">> }

\* the synthetic hit built without str(e)
ErrorHitsNoMessage(msg) == << [title |-> <<"E", "r", "r", "o", "r">>, link |-> <<>>, snippet |-> <<>>] >>

\* hits = [{"title": "Error", "link": "", "snippet": str(e)}]
ErrorTitle == <<"E", "r", "r", "o", "r">>
ErrorHits(msg) == << [title |-> ErrorTitle, link |-> <<>>, snippet |-> msg] >>

Block(sq, hits) == [subquestion |-> sq, results |-> hits]

\* one google_search.invoke: its arguments, how it ended, str(e) when it raised
SearchCall(sq, outcome, error) ==
    [query |-> sq, num_results |-> 5, outcome |-> outcome, error |-> error]

SearchStart ==
    /\ pc = "search"
    /\ subqs' = Get(state, "subquestions", <<>>)
    /\ aggregated' = <<>>
    /\ idx' = 1
    /\ ran' = Append(ran, "search")
    /\ pc' = "search_loop"
    /\ UNCHANGED << entry, os_environ, dotenv_file, GOOGLE_SEARCH_API_KEY, GOOGLE_CSE_ID,
                    q, state, llm_calls, search_calls, net_requests, stdout, exc, ret,
                    pending, planner_content >>

\* the except branch leaving the loop iteration without appending a block
IterateSkipsOnError(outcome, error, hits) ==
    /\ search_calls' = Append(search_calls, [query |-> subqs[idx], num_results |-> 5,
                                             outcome |-> outcome, error |-> error])
    /\ aggregated' = IF outcome = "raised" THEN aggregated
                     ELSE Append(aggregated, [subquestion |-> subqs[idx], results |-> hits])
    /\ idx' = idx + 1
    /\ UNCHANGED << pc, entry, os_environ, dotenv_file, GOOGLE_SEARCH_API_KEY,
                    GOOGLE_CSE_ID, q, state, subqs, llm_calls, stdout, exc, ret, ran,
                    pending, planner_content >>

\* one iteration of the for loop; hits is what the try/except leaves in hits
Iterate(outcome, error, hits) ==
    /\ search_calls' = Append(search_calls, SearchCall(subqs[idx], outcome, error))
    /\ aggregated' = Append(aggregated, Block(subqs[idx], hits))
    /\ idx' = idx + 1
    /\ UNCHANGED << pc, entry, os_environ, dotenv_file, GOOGLE_SEARCH_API_KEY,
                    GOOGLE_CSE_ID, q, state, subqs, llm_calls, stdout, exc, ret, ran,
                    pending, planner_content >>

InLoop == pc = "search_loop" /\ idx <= Len(subqs)

\* google_search.invoke raises before or outside the tool body's own try
SearchToolRaises ==
    /\ InLoop
    /\ \E msg \in ToolErrors : Iterate("raised", msg, ErrorHits(msg))
    /\ UNCHANGED net_requests

SearchNotConfigured ==
    /\ InLoop
    /\ ~SearchConfigured
    /\ Iterate("not_configured", <<>>, <<>>)
    /\ UNCHANGED net_requests

SearchRequestFails ==
    /\ InLoop
    /\ SearchConfigured
    /\ \E f \in RequestFailures : Iterate(f, <<>>, <<>>)
    /\ net_requests' = Append(net_requests, [q |-> subqs[idx], num |-> ClampNum(5)])

SearchRequestOk ==
    /\ InLoop
    /\ SearchConfigured
    /\ \E data \in ResponseData : Iterate("ok", <<>>, ResultsOf(data))
    /\ net_requests' = Append(net_requests, [q |-> subqs[idx], num |-> ClampNum(5)])

SearchReturn ==
    /\ pc = "search_loop"
    /\ idx > Len(subqs)
    /\ state' = Merge(state, [search_results |-> aggregated])
    /\ pc' = AfterNode("search")
    /\ UNCHANGED << entry, os_environ, dotenv_file, GOOGLE_SEARCH_API_KEY, GOOGLE_CSE_ID,
                    q, subqs, idx, aggregated, llm_calls, search_calls, net_requests,
                    stdout, exc, ret, ran, pending, planner_content >>

----------------------------------------------------------------------------
(* agents.py: synthesizer_node *)

SYS_INTERNAL == "You are a senior research analyst. Answer the question using your internal knowledge. If sources are unavailable, don't fabricate citations."
SYS_CITED == "You are a senior research analyst. Synthesize a clear, structured report [...]"

MainQuestion(question) == Section("Main Question:", <<question>>)
WriteReport == Section("Write the final report.", <<>>)

\* the fallback message built from the cited template, with an empty context
InternalHumanWithContext(question) ==
    << MainQuestion(question), Section("Context from searches:", <<>>), WriteReport >>

InternalHuman(question) == << MainQuestion(question), WriteReport >>
CitedHuman(question, context) ==
    << MainQuestion(question), Section("Context from searches:", context), WriteReport >>

SynthQuestion == Get(state, "question", <<>>)
SynthResults == Get(state, "search_results", <<>>)

\* the has_results loop
HasResults(search_results) ==
    \E i \in 1..Len(search_results) : Get(search_results[i], "results", <<>>) # <<>>

\* r.get('title') or r.get('snippet')
Usable(r) == Get(r, "title", <<>>) # <<>> \/ Get(r, "snippet", <<>>) # <<>>

\* f"- {r.get('title', '')}: {r.get('snippet', '')}"
HitLine(r) == <<"- ">> \o Get(r, "title", <<>>) \o <<": ">> \o Get(r, "snippet", <<>>)

\* the lines built without the [:5] slice
BlockLinesUncapped(block) == Map(SelectSeq(Get(block, "results", <<>>), Usable), HitLine)

\* the lines built for one block: results[:5], those with a title or a snippet
BlockLines(block) == Map(SelectSeq(Take(Get(block, "results", <<>>), 5), Usable), HitLine)

SubqLine(sq) == <<"Sub-question: ">> \o sq

\* f"Sub-question: {sq}\n" + "\n".join(lines), as its lines
Chunk(block) == <<SubqLine(Get(block, "subquestion", <<>>))>> \o BlockLines(block)

HasLines(block) == BlockLines(block) # <<>>

ContextChunks(search_results) == Map(SelectSeq(search_results, HasLines), Chunk)

\* "\n\n".join(context_chunks), as its lines: an empty line between two chunks
Context(search_results) == Join(ContextChunks(search_results), << <<>> >>)

Submit(sys, human) ==
    /\ pending' = [node |-> "synthesizer", sys |-> sys, human |-> human]
    /\ ran' = Append(ran, "synthesizer")
    /\ pc' = "llm_synth"
    /\ UNCHANGED << entry, os_environ, dotenv_file, GOOGLE_SEARCH_API_KEY, GOOGLE_CSE_ID,
                    q, state, subqs, idx, aggregated, llm_calls, search_calls,
                    net_requests, stdout, exc, ret, planner_content >>

\* if not has_results
SynthesizerNoResults ==
    /\ pc = "synthesizer"
    /\ ~HasResults(SynthResults)
    /\ Submit(SYS_INTERNAL, InternalHuman(SynthQuestion))

\* if not context_chunks
SynthesizerNoContext ==
    /\ pc = "synthesizer"
    /\ HasResults(SynthResults)
    /\ ContextChunks(SynthResults) = <<>>
    /\ Submit(SYS_INTERNAL, InternalHuman(SynthQuestion))

SynthesizerCited ==
    /\ pc = "synthesizer"
    /\ HasResults(SynthResults)
    /\ ContextChunks(SynthResults) # <<>>
    /\ Submit(SYS_CITED, CitedHuman(SynthQuestion, Context(SynthResults)))

\* what the model may answer to the synthesizer
ReportContents ==
    { [type |-> "str", val |-> <<"r">>], [type |-> "str", val |-> <<>>],
      [type |-> "list", val |-> << <<"r">> >>] }

SynthesizerReturn ==
    /\ pc = "llm_synth"
    /\ ~GetLlmRaises
    /\ \E out \in ReportContents :
          /\ llm_calls' = Append(llm_calls, LlmCall(TRUE, out))
          /\ state' = Merge(state, [final_report |-> ContentText(out)])
    /\ pending' = NoPending
    /\ pc' = AfterNode("synthesizer")
    /\ UNCHANGED << entry, os_environ, dotenv_file, GOOGLE_SEARCH_API_KEY, GOOGLE_CSE_ID,
                    q, subqs, idx, aggregated, search_calls, net_requests, stdout, exc,
                    ret, ran, planner_content >>

----------------------------------------------------------------------------
(* Direct calls of planner_node *)

Chars == {"-", " ", TAB, "a", LF, CR}

\* every text up to MaxTextLen characters
DeepTexts == SeqsUpTo(Chars, MaxTextLen)

\* texts of up to MaxLines lines, each a sub-question, bulleted or not
WideLines == { <<"-", " ", "a", "a", "a", " ", "a", "a", "a">>, <<"a", "a", "a">> }
WideTexts == { Join(ls, <<LF>>) : ls \in SeqsUpTo(WideLines, MaxLines) }

\* a response whose content is a list of parts, not a str
ListContents == { [type |-> "list", val |-> << <<"a", "a">> >>] }

PlannerContents ==
    { [type |-> "str", val |-> t] : t \in DeepTexts \cup WideTexts } \cup ListContents

PlannerQuestions == { <<>>, <<" ", TAB, LF>>, <<" ", "a", " ">> }

InitCommon ==
    /\ GOOGLE_SEARCH_API_KEY = FALSE
    /\ GOOGLE_CSE_ID = FALSE
    /\ subqs = <<>>
    /\ idx = 1
    /\ aggregated = <<>>
    /\ llm_calls = <<>>
    /\ search_calls = <<>>
    /\ net_requests = <<>>
    /\ stdout = <<>>
    /\ exc = NoExc
    /\ ret = NoRet
    /\ ran = <<>>
    /\ pending = NoPending

InitPlanner ==
    /\ InitCommon
    /\ entry = "planner_node"
    /\ pc = "planner"
    /\ os_environ \in {{}, {"GOOGLE_API_KEY"}}
    /\ dotenv_file = {}
    /\ q \in PlannerQuestions
    /\ state \in {EmptyState, [question |-> q]}
    /\ planner_content \in PlannerContents

NextPlanner ==
    \/ PlannerShortCircuit
    \/ PlannerAsk
    \/ PlannerReturn
    \/ GetLlmFails
    \/ InvokeFails

SpecPlanner == InitPlanner /\ [][NextPlanner]_vars

----------------------------------------------------------------------------
(* Direct calls of synthesizer_node *)

FullHit == [title |-> <<"T">>, link |-> <<"L">>, snippet |-> <<"S">>]
BlankHit == [title |-> <<>>, link |-> <<"L">>, snippet |-> <<>>]

Repeat(x, n) == [i \in 1..n |-> x]

\* result lists of up to MaxHits hits: hits without title and snippet, then full hits
HitLists ==
    { Repeat(BlankHit, n) \o Repeat(FullHit, m) :
        n \in 0..MaxHits, m \in 0..MaxHits } \cap SeqsUpTo({BlankHit, FullHit}, MaxHits)

\* a block is given its results, or lacks the key
BlockShapes ==
    { [has_results |-> TRUE, results |-> h] : h \in HitLists } \cup
    { [has_results |-> FALSE, results |-> <<>>] }

\* the i-th block asks the i-th sub-question
SubqAt(i) == Repeat("s", i)

BlockOf(shape, i) ==
    IF shape.has_results THEN Block(SubqAt(i), shape.results)
    ELSE [subquestion |-> SubqAt(i)]

SynthStates ==
    { [question |-> <<"a">>] } \cup
    { [question |-> <<"a">>,
       search_results |-> [i \in 1..Len(shapes) |-> BlockOf(shapes[i], i)]] :
         shapes \in SeqsUpTo(BlockShapes, MaxBlocks) }

InitSynth ==
    /\ InitCommon
    /\ entry = "synthesizer_node"
    /\ pc = "synthesizer"
    /\ os_environ \in {{}, {"GOOGLE_API_KEY"}}
    /\ dotenv_file = {}
    /\ q = <<"a">>
    /\ state \in SynthStates
    /\ planner_content = NoContent

NextSynth ==
    \/ SynthesizerNoResults
    \/ SynthesizerNoContext
    \/ SynthesizerCited
    \/ SynthesizerReturn
    \/ GetLlmFails
    \/ InvokeFails

SpecSynth == InitSynth /\ [][NextSynth]_vars

----------------------------------------------------------------------------
(* main.py: the command line, and run *)

\* tools.py lines 6-7 run when main.py line 5 imports graph (graph imports agents,
\* agents imports tools): the two globals are read from the environment once, here
ImportGraph ==
    /\ pc = "import"
    /\ GOOGLE_SEARCH_API_KEY' = ("GOOGLE_SEARCH_API_KEY" \in os_environ)
    /\ GOOGLE_CSE_ID' = ("GOOGLE_CSE_ID" \in os_environ)
    /\ pc' = IF entry = "cli" THEN "load_dotenv" ELSE "run"
    /\ UNCHANGED << entry, os_environ, dotenv_file, q, state, subqs, idx, aggregated,
                    llm_calls, search_calls, net_requests, stdout, exc, ret, ran,
                    pending, planner_content >>

\* load_dotenv() adds the names of .env that the environment does not set yet
LoadDotenv ==
    /\ pc = "load_dotenv"
    /\ os_environ' = os_environ \cup dotenv_file
    /\ pc' = "check_api_key"
    /\ UNCHANGED << entry, dotenv_file, GOOGLE_SEARCH_API_KEY, GOOGLE_CSE_ID, q, state,
                    subqs, idx, aggregated, llm_calls, search_calls, net_requests,
                    stdout, exc, ret, ran, pending, planner_content >>

MISSING_KEY == "ERROR: Missing GOOGLE_API_KEY in .env"
LLM_ONLY == "INFO: Running in LLM-only mode (search keys not provided)."
REPORT == "===== Final Report ====="

MainKeyMissing ==
    /\ pc = "check_api_key"
    /\ "GOOGLE_API_KEY" \notin os_environ
    /\ stdout' = Append(stdout, MISSING_KEY)
    /\ pc' = "exited"
    /\ UNCHANGED << entry, os_environ, dotenv_file, GOOGLE_SEARCH_API_KEY, GOOGLE_CSE_ID,
                    q, state, subqs, idx, aggregated, llm_calls, search_calls,
                    net_requests, exc, ret, ran, pending, planner_content >>

\* if not os.getenv("GOOGLE_SEARCH_API_KEY") or not os.getenv("GOOGLE_CSE_ID")
MainSearchKeysMissing ==
    "GOOGLE_SEARCH_API_KEY" \notin os_environ \/ "GOOGLE_CSE_ID" \notin os_environ

MainNotice ==
    /\ pc = "check_api_key"
    /\ "GOOGLE_API_KEY" \in os_environ
    /\ MainSearchKeysMissing
    /\ stdout' = Append(stdout, LLM_ONLY)
    /\ pc' = "run"
    /\ UNCHANGED << entry, os_environ, dotenv_file, GOOGLE_SEARCH_API_KEY, GOOGLE_CSE_ID,
                    q, state, subqs, idx, aggregated, llm_calls, search_calls,
                    net_requests, exc, ret, ran, pending, planner_content >>

MainNoNotice ==
    /\ pc = "check_api_key"
    /\ "GOOGLE_API_KEY" \in os_environ
    /\ ~MainSearchKeysMissing
    /\ pc' = "run"
    /\ UNCHANGED << entry, os_environ, dotenv_file, GOOGLE_SEARCH_API_KEY, GOOGLE_CSE_ID,
                    q, state, subqs, idx, aggregated, llm_calls, search_calls,
                    net_requests, stdout, exc, ret, ran, pending, planner_content >>

\* graph.invoke({"question": question})
GraphInvoke ==
    /\ pc = "run"
    /\ state' = [question |-> q]
    /\ pc' = Edge[START]
    /\ UNCHANGED << entry, os_environ, dotenv_file, GOOGLE_SEARCH_API_KEY, GOOGLE_CSE_ID,
                    q, subqs, idx, aggregated, llm_calls, search_calls, net_requests,
                    stdout, exc, ret, ran, pending, planner_content >>

\* return result.get("final_report", "")
RunReturn ==
    /\ pc = END
    /\ entry \in {"cli", "run"}
    /\ ret' = [returned |-> TRUE, val |-> Get(state, "final_report", <<>>)]
    /\ pc' = IF entry = "cli" THEN "print" ELSE "done"
    /\ UNCHANGED << entry, os_environ, dotenv_file, GOOGLE_SEARCH_API_KEY, GOOGLE_CSE_ID,
                    q, state, subqs, idx, aggregated, llm_calls, search_calls,
                    net_requests, stdout, exc, ran, pending, planner_content >>

MainPrint ==
    /\ pc = "print"
    /\ stdout' = Append(stdout, REPORT)
    /\ pc' = "done"
    /\ UNCHANGED << entry, os_environ, dotenv_file, GOOGLE_SEARCH_API_KEY, GOOGLE_CSE_ID,
                    q, state, subqs, idx, aggregated, llm_calls, search_calls,
                    net_requests, exc, ret, ran, pending, planner_content >>

----------------------------------------------------------------------------
(* A pipeline run: the command line, or run(question) called after importing main *)

Questions == { <<>>, <<" ", TAB, LF>>, <<"a", "b">> }

RunLines == { <<"-", " ", "a", "b", "c">>, <<"x", "y", "z">> }

RunContents ==
    { [type |-> "str", val |-> Join(ls, <<LF>>)] : ls \in SeqsUpTo(RunLines, MaxSubqs) }

Init ==
    /\ InitCommon
    /\ entry \in {"cli", "run"}
    /\ pc = "import"
    /\ os_environ \in SUBSET EnvNames
    /\ dotenv_file \in IF entry = "cli" THEN SUBSET (EnvNames \ os_environ) ELSE {{}}
    /\ q \in Questions
    /\ state = EmptyState
    /\ planner_content \in RunContents

Next ==
    \/ ImportGraph
    \/ LoadDotenv
    \/ MainKeyMissing
    \/ MainNotice
    \/ MainNoNotice
    \/ GraphInvoke
    \/ PlannerShortCircuit
    \/ PlannerAsk
    \/ PlannerReturn
    \/ SearchStart
    \/ SearchToolRaises
    \/ SearchNotConfigured
    \/ SearchRequestFails
    \/ SearchRequestOk
    \/ SearchReturn
    \/ SynthesizerNoResults
    \/ SynthesizerNoContext
    \/ SynthesizerCited
    \/ SynthesizerReturn
    \/ GetLlmFails
    \/ InvokeFails
    \/ RunReturn
    \/ MainPrint

Spec == Init /\ [][Next]_vars

----------------------------------------------------------------------------
(* Properties *)

Range(s) == { s[i] : i \in 1..Len(s) }

IsPrefix(a, b) == Len(a) <= Len(b) /\ \A i \in 1..Len(a) : a[i] = b[i]

\* the run reached the end of the graph
PipelineDone == pc \in {END, "print", "done"}

Subquestions == Get(state, "subquestions", <<>>)

\* C1: search_node returns exactly one result block per sub-question, in the
\* sub-questions' order and each carrying its sub-question, whatever each search
\* call returns or raises (duplicates and the empty sequence included); the loop
\* keeps this for the blocks built so far.
C1_OneBlockPerSubquestion ==
    /\ pc = "search_loop" =>
          /\ Len(aggregated) = idx - 1
          /\ \A i \in 1..Len(aggregated) : aggregated[i].subquestion = subqs[i]
    /\ "search_results" \in DOMAIN state =>
          /\ Len(state.search_results) = Len(Subquestions)
          /\ \A i \in 1..Len(Subquestions) :
                state.search_results[i].subquestion = Subquestions[i]

C1_Witness ==
    /\ "search_results" \in DOMAIN state
    /\ Len(state.search_results) = 2
    /\ Subquestions[1] = Subquestions[2]
    /\ \E i, j \in 1..Len(search_calls) :
          search_calls[i].outcome = "raised" /\ search_calls[j].outcome = "ok"

\* the block built for the i-th search call
ResultsOfCall(i) == aggregated[i].results

\* C2 (as claimed): every sub-question whose search call fails (network error, HTTP
\* status, malformed response, or an exception raised by the call) while search is
\* configured gets a block of exactly one hit, titled "Error", with an empty link and
\* a non-empty snippet; never an empty results list.
C2_FailureGivesErrorHit ==
    \A i \in 1..Len(search_calls) :
        (SearchConfigured /\ search_calls[i].outcome \in RequestFailures \cup {"raised"}) =>
            /\ Len(ResultsOfCall(i)) = 1
            /\ ResultsOfCall(i)[1].title = <<"E", "r", "r", "o", "r">>
            /\ ResultsOfCall(i)[1].link = <<>>
            /\ ResultsOfCall(i)[1].snippet # <<>>

\* C2 (amended): a sub-question whose google_search.invoke call raises gets a block
\* of exactly one hit, titled "Error", with an empty link and str(e) as its snippet;
\* a failure inside google_search (network error, HTTP status, malformed response)
\* is caught there and leaves the block with an empty results list.
C2_RaisedGivesErrorHit ==
    \A i \in 1..Len(search_calls) :
        /\ search_calls[i].outcome = "raised" =>
              ResultsOfCall(i) = << [title |-> <<"E", "r", "r", "o", "r">>, link |-> <<>>,
                                     snippet |-> search_calls[i].error] >>
        /\ search_calls[i].outcome \in RequestFailures => ResultsOfCall(i) = <<>>

C2_Witness ==
    /\ pc = "synthesizer"
    /\ \E i, j \in 1..Len(search_calls) :
          /\ search_calls[i].outcome = "raised" /\ search_calls[i].error # <<>>
          /\ search_calls[j].outcome = "malformed"

\* C3 (as claimed): whatever the model returns, planner_node writes at most 6
\* sub-questions.
C3_AtMostSix ==
    "subquestions" \in DOMAIN state => Len(state.subquestions) <= 6

NumLineBreaks(t) == Cardinality({ i \in 1..Len(t) : t[i] \in {LF, CR} })

\* C3 (amended): planner_node writes at most one sub-question per line of the
\* model's response (at most one more than the response has line breaks); nothing
\* limits the sequence to 6 entries.
C3_AtMostOnePerLine ==
    (pc = END /\ llm_calls # <<>>) =>
        Len(state.subquestions) <= NumLineBreaks(ContentText(planner_content)) + 1

C3_Witness ==
    /\ pc = END
    /\ "subquestions" \in DOMAIN state
    /\ Len(state.subquestions) = 7

\* an entry with its leading bullet markers and surrounding spaces and tabs removed
Trimmed(e) == RStrip(LStrip(e, {"-", " ", TAB}), {" ", TAB})

\* C4: every sub-question the planner returns is still longer than 2 characters once
\* its leading "- " bullet markers and its surrounding spaces and tabs are trimmed.
C4_TrimmedLongerThanTwo ==
    "subquestions" \in DOMAIN state =>
        \A i \in 1..Len(state.subquestions) : Len(Trimmed(state.subquestions[i])) > 2

Blank(s) == \A i \in 1..Len(s) : s[i] \in {" ", TAB, LF, CR}

\* a model input of the internal-knowledge path: the no-fabricated-citations
\* instruction and a human message of the question alone
InternalInput(m, question) ==
    /\ m.node = "synthesizer"
    /\ m.sys = SYS_INTERNAL
    /\ m.human = << [label |-> "Main Question:", body |-> <<question>>],
                    [label |-> "Write the final report.", body |-> <<>>] >>
    /\ \A k \in 1..Len(m.human) : m.human[k].label # "Context from searches:"

\* C5: a pipeline run on an empty or whitespace-only question makes no planner model
\* call and no search call, ends with subquestions = [] and search_results = [], and
\* its one model call is the synthesizer's, on the internal-knowledge path, whose
\* answer becomes final_report.
C5_BlankQuestion ==
    (Blank(q) /\ entry \in {"cli", "run"}) =>
        /\ pc # "llm_plan"
        /\ search_calls = <<>>
        /\ net_requests = <<>>
        /\ Len(llm_calls) <= 1
        /\ \A i \in 1..Len(llm_calls) : InternalInput(llm_calls[i], q)
        /\ pc = "llm_synth" => InternalInput(pending, q)
        /\ PipelineDone =>
              /\ state.subquestions = <<>>
              /\ state.search_results = <<>>
              /\ Len(llm_calls) = 1
              /\ llm_calls[1].ok
              /\ "final_report" \in DOMAIN state

C5_Witness ==
    /\ Blank(q)
    /\ q # <<>>
    /\ entry = "cli"
    /\ pc = "done"
    /\ "final_report" \in DOMAIN state

\* the result blocks synthesizer_node reads
Blocks == Get(state, "search_results", <<>>)
HitsOf(i) == Get(Blocks[i], "results", <<>>)

AllResultsEmpty == \A i \in 1..Len(Blocks) : HitsOf(i) = <<>>

\* C6: when every block's results list is empty (or there is no block, or no block
\* list), synthesizer_node calls the model on the internal-knowledge path: the
\* no-fabricated-citations instruction and the question alone, no context section.
C6_EmptyResultsInternal ==
    AllResultsEmpty =>
        /\ pc = "llm_synth" => InternalInput(pending, Get(state, "question", <<>>))
        /\ \A i \in 1..Len(llm_calls) :
              InternalInput(llm_calls[i], Get(state, "question", <<>>))

C6_Witness ==
    /\ AllResultsEmpty
    /\ Len(Blocks) = 2
    /\ "results" \in DOMAIN Blocks[1]
    /\ "results" \notin DOMAIN Blocks[2]
    /\ "final_report" \in DOMAIN state

\* the j-th hit of block i has a title or a snippet
UsableHit(i, j) ==
    \/ Get(HitsOf(i)[j], "title", <<>>) # <<>>
    \/ Get(HitsOf(i)[j], "snippet", <<>>) # <<>>

UsableAnywhere(i) == \E j \in 1..Len(HitsOf(i)) : UsableHit(i, j)
UsableInFirstFive(i) == \E j \in 1..Len(HitsOf(i)) : j <= 5 /\ UsableHit(i, j)

\* the lines of the context section of a model input
ContextOf(m) ==
    LET ks == { k \in 1..Len(m.human) : m.human[k].label = "Context from searches:" }
    IN  IF ks = {} THEN <<>> ELSE m.human[CHOOSE k \in ks : TRUE].body

IsHitLine(l) == l # <<>> /\ l[1] = "- "
IsSubqLine(l) == l # <<>> /\ l[1] = "Sub-question: "

\* the cited-context input: one "Sub-question: <sq>" line for each contributing
\* block and for no other, at most 5 "- <title>: <snippet>" lines in a row
CitedInput(m, Contributes(_)) ==
    LET ctx == ContextOf(m) IN
    /\ m.sys = SYS_CITED
    /\ \E k \in 1..Len(m.human) : m.human[k].label = "Context from searches:"
    /\ \A i \in 1..Len(Blocks) :
          Cardinality({ n \in 1..Len(ctx) :
                ctx[n] = <<"Sub-question: ">> \o Get(Blocks[i], "subquestion", <<>>) })
            = IF Contributes(i) THEN 1 ELSE 0
    /\ Cardinality({ n \in 1..Len(ctx) : IsSubqLine(ctx[n]) })
            = Cardinality({ i \in 1..Len(Blocks) : Contributes(i) })
    /\ \A n \in 1..Len(ctx) :
          ~(n + 5 <= Len(ctx) /\ \A d \in 0..5 : IsHitLine(ctx[n + d]))

\* C7 (as claimed): when some hit, at any position of any block's results, has a title
\* or a snippet, the synthesizer takes the cited-context path, with one Sub-question
\* line for each block having such a hit and at most 5 hit lines under each.
C7_AnyPosition ==
    ((\E i \in 1..Len(Blocks) : UsableAnywhere(i)) /\ pc = "llm_synth") =>
        CitedInput(pending, UsableAnywhere)

\* C7 (amended): when some hit among the first 5 of some block's results has a title
\* or a snippet, the synthesizer takes the cited-context path, with one Sub-question
\* line for each block having such a hit among its first 5, none for the other
\* blocks, and at most 5 hit lines under each.
C7_FirstFive ==
    ((\E i \in 1..Len(Blocks) : UsableInFirstFive(i)) /\ pc = "llm_synth") =>
        CitedInput(pending, UsableInFirstFive)

C7_Witness ==
    /\ pc = "llm_synth"
    /\ Len(Blocks) = 2
    /\ Len(HitsOf(1)) = 6
    /\ \A j \in 1..6 : UsableHit(1, j)
    /\ HitsOf(2) # <<>>
    /\ ~UsableAnywhere(2)
    /\ pending.sys = SYS_CITED

SearchKeysInEnvironment == {"GOOGLE_SEARCH_API_KEY", "GOOGLE_CSE_ID"} \subseteq os_environ

\* C8: search is enabled for a search call exactly when both search variables are in
\* the process environment at the time of the call (so a run whose .env supplies them
\* through load_dotenv issues a search request per sub-question), and the command
\* line prints its LLM-only notice exactly for the runs in which search is disabled.
C8_SearchFollowsEnvironment ==
    /\ pc = "search_loop" => (SearchConfigured <=> SearchKeysInEnvironment)
    /\ \A i \in 1..Len(search_calls) :
          search_calls[i].outcome # "raised" =>
              (search_calls[i].outcome # "not_configured" <=> SearchKeysInEnvironment)
    /\ (entry = "cli" /\ pc \notin {"import", "load_dotenv", "check_api_key", "exited"}) =>
          (LLM_ONLY \in Range(stdout) <=> ~SearchConfigured)

\* what is left of the run: the position, and the loop's remaining sub-questions
PcRank ==
    [import |-> 12, load_dotenv |-> 11, check_api_key |-> 10, run |-> 9, planner |-> 8,
     llm_plan |-> 7, search |-> 6, search_loop |-> 5, synthesizer |-> 4, llm_synth |-> 3,
     END |-> 2, print |-> 1, done |-> 0, raised |-> 0, exited |-> 0]

Rank == PcRank[pc] * 100 + (IF pc = "search_loop" THEN Len(subqs) + 1 - idx ELSE 0)

Stopped == pc \in {"done", "raised", "exited"}

C9_Outcome ==
    /\ ret.returned =>
          /\ exc = NoExc
          /\ llm_calls # <<>>
          /\ \A i \in 1..Len(llm_calls) : llm_calls[i].ok
          /\ llm_calls[Len(llm_calls)].node = "synthesizer"
          /\ ret.val = ContentText(llm_calls[Len(llm_calls)].content)
          /\ state.final_report = ret.val
    /\ (exc # NoExc \/ \E i \in 1..Len(llm_calls) : ~llm_calls[i].ok) =>
          /\ pc = "raised"
          /\ exc # NoExc
          /\ ~ret.returned
          /\ "final_report" \notin DOMAIN state
          /\ ran[Len(ran)] = pending.node
          /\ pending.node = "planner" =>
                (search_calls = <<>> /\ "search_results" \notin DOMAIN state)
    /\ pc = "raised" => exc # NoExc
    /\ Stopped \/ ENABLED Next

\* C9: whatever the question and the search outcomes, a run in which every model call
\* succeeds ends, and run returns the text of the synthesizer's model response, which
\* is final_report; a failing model call raises out of run, no later stage runs and
\* no final_report is produced.  Every step brings the run closer to its end.
C9_RunCompletes == [](C9_Outcome) /\ [][Rank' < Rank]_vars

C9_Witness ==
    /\ ret.returned
    /\ entry = "run"
    /\ ret.val = <<"r">>
    /\ \E i, j \in 1..Len(search_calls) :
          search_calls[i].outcome = "raised" /\ search_calls[j].outcome = "network_error"

Stages == <<"planner", "search", "synthesizer">>

CallNodes == [i \in 1..Len(llm_calls) |-> llm_calls[i].node]
Queries == [i \in 1..Len(search_calls) |-> search_calls[i].query]

\* C10: the planner runs first and once, with at most one model call; then the
\* searcher once, one search call per sub-question in the sub-questions' order; then
\* the synthesizer once, with one model call; no search call before the planner wrote
\* subquestions or after the synthesizer started, and no stage twice.
C10_FixedOrder ==
    /\ IsPrefix(ran, Stages)
    /\ CallNodes = <<"synthesizer">> \/ IsPrefix(CallNodes, <<"planner", "synthesizer">>)
    /\ "synthesizer" \in Range(CallNodes) => Len(ran) = 3
    /\ search_calls # <<>> => ("subquestions" \in DOMAIN state /\ Len(ran) >= 2)
    /\ IsPrefix(Queries, Subquestions)
    /\ Len(ran) = 3 => Len(search_calls) = Len(Subquestions)
    /\ PipelineDone =>
          /\ ran = Stages
          /\ Len(search_calls) = Len(Subquestions)
          /\ Cardinality({ i \in 1..Len(llm_calls) : llm_calls[i].node = "synthesizer" }) = 1

C10_Witness ==
    /\ pc = "done"
    /\ Len(search_calls) = 2
    /\ Len(llm_calls) = 2
    /\ ran = Stages

====
